---- MODULE Spec2Model ----
(***************************************************************************)
(* A model of multical's motion/static.py, interface/view_table.py and     *)
(* interface/viewer_3d/moving_cameras.py.                                  *)
(*                                                                         *)
(* numpy arrays are records [shape, data]: shape is a sequence of axis     *)
(* lengths, data a function from index tuples (0-based) to values.         *)
(* Floating point values are exact rationals [num, den]; den = 0 encodes   *)
(* the IEEE values NaN (num = 0) and inf (num # 0).                        *)
(***************************************************************************)
EXTENDS Integers, Sequences, FiniteSets, TLC

VARIABLES
  \* motion/static.py
  model, ret,
  \* view_table.py: reprojection_statistics, masked_quantile
  error, valid, inlier, stats, quant,
  \* view_table.py: reprojection_tables, detection_tables
  calib, rtables, dtables,
  \* view_table.py: ViewModelCalibrated
  metric, inlier_only, modelReset, raised,
  \* viewer_3d/moving_cameras.py: MovingCameras
  pose_estimates, views, board, viewer_updates, last_call, last_show

staticVars == <<model, ret>>
statsVars  == <<error, valid, inlier, stats, quant>>
tableVars  == <<calib, rtables, dtables>>
metricVars == <<metric, inlier_only, modelReset, raised>>
viewVars   == <<pose_estimates, views, board, viewer_updates, last_call, last_show>>
vars == <<staticVars, statsVars, tableVars, metricVars, viewVars>>

\* What the operations of one class leave alone: the other classes' state.
notStatic == <<statsVars, tableVars, metricVars, viewVars>>
notStats == <<staticVars, tableVars, metricVars, viewVars>>
notTable == <<staticVars, statsVars, metricVars, viewVars>>
notMetric == <<staticVars, statsVars, tableVars, viewVars>>
notView == <<staticVars, statsVars, tableVars, metricVars>>

----------------------------------------------------------------------------
\* Bounds of the model.
NPoints == 3
MaxError == 1
NCameras == 2
NFrames == 2
NBoards == 2
NBoardPoints == 2
MaxDetected == 2
MaxParams == 3
MaxResets == 3
MaxUpdates == 2

----------------------------------------------------------------------------
\* Python's None, and the value a call has not produced yet.
None == [type |-> "NoneType"]
NotCalled == [type |-> "NotCalled"]

\* IEEE values of numpy floats.
NaN == [num |-> 0, den |-> 0]
Rat(n, d) == [num |-> n, den |-> d]
IsNaN(x) == x.den = 0 /\ x.num = 0

\* ------------------------------------------------------------ numpy arrays
RECURSIVE MaxOf(_)
MaxOf(s) ==
  IF s = <<>> THEN 0
  ELSE LET m == MaxOf(Tail(s)) IN IF Head(s) > m THEN Head(s) ELSE m

Indices(shape) ==
  {idx \in [1..Len(shape) -> 0..(MaxOf(shape) - 1)] :
     \A i \in 1..Len(shape) : idx[i] < shape[i]}

\* The axis argument of a numpy reduction: None, an int or a tuple of ints.
AxisNone == [kind |-> "None", v |-> <<>>]
AxisInt(a) == [kind |-> "int", v |-> <<a>>]
AxisTuple(t) == [kind |-> "tuple", v |-> t]

ReducedAxes(axis, rank) ==
  IF axis.kind = "None" THEN 0..(rank - 1)
  ELSE {axis.v[i] : i \in DOMAIN axis.v}

\* The axes a reduction keeps, in ascending order (0-based).
RECURSIVE KeptFrom(_, _, _)
KeptFrom(a, rank, red) ==
  IF a >= rank THEN <<>>
  ELSE IF a \in red THEN KeptFrom(a + 1, rank, red)
  ELSE <<a>> \o KeptFrom(a + 1, rank, red)

Kept(axis, rank) == KeptFrom(0, rank, ReducedAxes(axis, rank))

OutShape(shape, axis) ==
  LET k == Kept(axis, Len(shape)) IN [j \in 1..Len(k) |-> shape[k[j] + 1]]

\* The index tuples of `shape` that a reduction over `axis` folds into `out`:
\* those that agree with `out` on every axis kept.
Slice(shape, axis, out) ==
  LET k == Kept(axis, Len(shape))
  IN  {idx \in Indices(shape) : \A j \in 1..Len(k) : idx[k[j] + 1] = out[j]}

RECURSIVE SumSet(_, _)
SumSet(f, S) ==
  IF S = {} THEN 0
  ELSE LET x == CHOOSE x \in S : TRUE IN f[x] + SumSet(f, S \ {x})

AsInt(b) == IF b THEN 1 ELSE 0

\* ndarray.sum(axis=axis) of a numeric array.
np_sum(a, axis) ==
  LET shape == OutShape(a.shape, axis)
  IN  [shape |-> shape,
       data |-> [out \in Indices(shape) |-> SumSet(a.data, Slice(a.shape, axis, out))]]

\* ndarray.sum(axis=axis) of a boolean array: True counts 1, False 0.
np_count(a, axis) ==
  np_sum([a EXCEPT !.data = [idx \in DOMAIN a.data |-> AsInt(a.data[idx])]], axis)

np_square(a) == [a EXCEPT !.data = [idx \in DOMAIN a.data |-> a.data[idx] * a.data[idx]]]
\* Mutant: the second mask alone, the first forgotten.
np_and_second_only(a, b) == b

np_and(a, b) == [a EXCEPT !.data = [idx \in DOMAIN a.data |-> a.data[idx] /\ b.data[idx]]]
np_not(a) == [a EXCEPT !.data = [idx \in DOMAIN a.data |-> ~a.data[idx]]]
\* Mutant: the count is used as it is, without the floor of c.
np_maximum_unguarded(a, c) == a

np_maximum(a, c) ==
  [a EXCEPT !.data = [idx \in DOMAIN a.data |-> IF a.data[idx] > c THEN a.data[idx] ELSE c]]

\* Elementwise true division of an integer array by an integer array.
np_divide(a, b) ==
  [a EXCEPT !.data = [idx \in DOMAIN a.data |->
     IF b.data[idx] = 0
       THEN (IF a.data[idx] = 0 THEN NaN ELSE Rat(1, 0))
       ELSE Rat(a.data[idx], b.data[idx])]]

\* np.sqrt, kept symbolic: the root of a rational; sqrt(NaN) is NaN.
Sqrt(x) == IF IsNaN(x) THEN NaN ELSE [sqrt |-> x]
np_sqrt(a) == [a EXCEPT !.data = [idx \in DOMAIN a.data |-> Sqrt(a.data[idx])]]

\* ------------------------------------------------------- view_table.py 17-34
\* The values of a float array at the index tuples S that are not NaN, as a
\* sequence; the order is the one the sort below removes.
RECURSIVE NotNaNValues(_, _)
NotNaNValues(f, S) ==
  IF S = {} THEN <<>>
  ELSE LET x == CHOOSE x \in S : TRUE
       IN  (IF IsNaN(f[x]) THEN <<>> ELSE <<f[x].num>>) \o NotNaNValues(f, S \ {x})

\* numpy's default (linear) quantile of the sorted sequence v at q = q.num / q.den:
\* the value at the virtual index (Len(v) - 1) * q, interpolated between neighbours.
LinearQuantile(v, q) ==
  LET m   == Len(v)
      pos == (m - 1) * q.num
      lo  == pos \div q.den
      r   == pos % q.den
      hi  == IF lo + 1 < m THEN lo + 1 ELSE lo
  IN  Rat(q.den * v[lo + 1] + r * (v[hi + 1] - v[lo + 1]), q.den)

\* np.nanquantile(a, quantiles, axis=axis): one array per requested quantile; a
\* slice holding only NaN yields NaN (numpy warns "All-NaN slice encountered").
np_nanquantile(a, quantiles, axis) ==
  LET shape == OutShape(a.shape, axis)
      sorted == [out \in Indices(shape) |->
                  SortSeq(NotNaNValues(a.data, Slice(a.shape, axis, out)),
                          LAMBDA x, y : x < y)]
  IN  [k \in DOMAIN quantiles |->
        [shape |-> shape,
         data |-> [out \in Indices(shape) |->
                    IF sorted[out] = <<>> THEN NaN
                    ELSE LinearQuantile(sorted[out], quantiles[k])]]]

\* Mutant: masked entries are zero-filled instead of set to NaN.
MaskWithZero(a, mask) ==
  [a EXCEPT !.data = [idx \in DOMAIN a.data |->
     IF ~mask.data[idx] THEN Rat(0, 1) ELSE Rat(a.data[idx], 1)]]

\* error[~mask] = math.nan on a copy of error.
MaskWithNaN(a, mask) ==
  [a EXCEPT !.data = [idx \in DOMAIN a.data |->
     IF ~mask.data[idx] THEN NaN ELSE Rat(a.data[idx], 1)]]

masked_quantile(err, mask, quantiles, axis) ==
  np_nanquantile(MaskWithNaN(err, mask), quantiles, axis)

\* [0, 0.25, 0.5, 0.75, 1.0]
StatQuantiles == <<Rat(0, 4), Rat(1, 4), Rat(2, 4), Rat(3, 4), Rat(4, 4)>>

reprojection_statistics(err, val, inl, axis) ==
  LET n         == np_count(val, axis)
      mse       == np_divide(np_sum(np_square(err), axis), np_maximum(n, 1))
      outliers  == np_count(np_and(val, np_not(inl)), axis)
      quantiles == masked_quantile(err, val, StatQuantiles, axis)
  IN  [detected |-> n, outliers |-> outliers, mse |-> mse, rms |-> np_sqrt(mse),
       min |-> quantiles[1], lower_q |-> quantiles[2], median |-> quantiles[3],
       upper_q |-> quantiles[4], max |-> quantiles[5]]

\* ---------------------------------------------- calls of the two functions
Arrays(shape, values) ==
  {[shape |-> shape, data |-> d] : d \in [Indices(shape) -> values]}



CallReprojectionStatistics ==
  /\ stats = NotCalled /\ quant = NotCalled
  /\ \E axis \in {AxisNone, AxisInt(0)} :
       stats' = reprojection_statistics(error, valid, inlier, axis)
  /\ UNCHANGED <<error, valid, inlier, quant>>
  /\ UNCHANGED notStats

CallMaskedQuantile ==
  /\ stats = NotCalled /\ quant = NotCalled
  /\ \E m \in {"valid", "inlier"} :
       quant' = [mask |-> m,
                 result |-> masked_quantile(error, IF m = "valid" THEN valid ELSE inlier,
                                            StatQuantiles, AxisNone)]
  /\ UNCHANGED <<error, valid, inlier, stats>>
  /\ UNCHANGED notStats

\* ------------------------------------------------------ motion/static.py
\* What a call did: returned a value or raised.
Return(v) == [raised |-> "none", value |-> v]
Raise(exc) == [raised |-> exc, value |-> None]

\* Static.__init__ sets self.poses and nothing else.
Static(poses) == [type |-> "Static", attrs |-> {"poses"}, poses |-> poses]

\* def params(self): pass
params(self) == Return(None)

\* def with_params(self, params): pass
with_params(self, x) == Return(None)

\* def sparsity(self, index_table): pass
sparsity(self, index_table) == Return(None)

\* The positional parameters of reproject after self, none with a default.
ReprojectParameters == <<"cameras", "camera_poses", "world_points", "detected">>

\* tables.expand_views: one view per (camera, frame), valid where both poses are.
expand_views(camera_poses, poses) ==
  [c \in DOMAIN camera_poses |-> [f \in DOMAIN poses |-> camera_poses[c] /\ poses[f]]]

\* tables.transform_points: every point of a view is valid where the view is.
transform_points(world_points, view_table) ==
  [c \in DOMAIN view_table |->
    [f \in DOMAIN view_table[c] |-> [p \in DOMAIN world_points |-> view_table[c][f]]]]

reproject(self, cameras, camera_poses, world_points, detected) ==
  LET view_table  == expand_views(camera_poses, self.poses)
      transformed == transform_points(world_points, view_table)
  IN  IF "cameras" \notin self.attrs
        THEN Raise("AttributeError")   \* self.cameras
        ELSE Return([type |-> "Table", valid |-> transformed])

\* project passes three arguments on to reproject.
project(self, cameras, camera_poses, world_points) ==
  LET args == <<cameras, camera_poses, world_points>>
  IN  IF Len(args) # Len(ReprojectParameters)
        THEN Raise("TypeError")
        ELSE reproject(self, args[1], args[2], args[3], args[4])

\* model.with_params(x).params()
RoundTrip(self, x) ==
  LET m == with_params(self, x)
  IN  IF m.raised # "none" THEN m
      ELSE IF m.value = None THEN Raise("AttributeError")   \* None has no params
      ELSE params(m.value)

PoseValidity(n) == [1..n -> BOOLEAN]
ParamVectors == UNION {[1..n -> 0..1] : n \in 0..MaxParams}
NoCall == [op |-> "none", arg |-> <<>>, result |-> Return(None)]



CallParams ==
  /\ ret' = [op |-> "params", arg |-> <<>>, result |-> params(model)]
  /\ UNCHANGED model
  /\ UNCHANGED notStatic

CallWithParams ==
  /\ \E x \in ParamVectors :
       ret' = [op |-> "with_params", arg |-> x, result |-> with_params(model, x)]
  /\ UNCHANGED model
  /\ UNCHANGED notStatic

CallRoundTrip ==
  /\ \E x \in ParamVectors :
       ret' = [op |-> "round_trip", arg |-> x, result |-> RoundTrip(model, x)]
  /\ UNCHANGED model
  /\ UNCHANGED notStatic

CallSparsity ==
  /\ ret' = [op |-> "sparsity", arg |-> <<>>, result |-> sparsity(model, <<>>)]
  /\ UNCHANGED model
  /\ UNCHANGED notStatic

CallProject ==
  /\ \E camera_poses \in PoseValidity(NCameras), world_points \in {[p \in 1..NBoardPoints |-> p]} :
       ret' = [op |-> "project", arg |-> camera_poses,
               result |-> project(model, [c \in 1..NCameras |-> c], camera_poses, world_points)]
  /\ UNCHANGED model
  /\ UNCHANGED notStatic

CallReproject ==
  /\ \E camera_poses \in PoseValidity(NCameras), world_points \in {[p \in 1..NBoardPoints |-> p]} :
       ret' = [op |-> "reproject", arg |-> camera_poses,
               result |-> reproject(model, [c \in 1..NCameras |-> c], camera_poses,
                                    world_points, None)]
  /\ UNCHANGED model
  /\ UNCHANGED notStatic

\* ------------------------------------- view_table.py: ViewModelCalibrated
\* list(self.metrics.keys()): a dict keeps the order of its construction.
MetricKeys == <<"detected", "median", "upper_q", "max", "rms", "mse">>

\* Mutant: the membership assertion compiled away.
InDictUnchecked(keys, k) == TRUE

InDict(keys, k) == \E i \in DOMAIN keys : keys[i] = k

\* list[i]: a negative index counts from the end, any other is an IndexError.
ListIndex(list, i) ==
  LET n == Len(list)
  IN  IF i >= 0 /\ i < n THEN Return(list[i + 1])
      ELSE IF i < 0 /\ i >= -n THEN Return(list[n + i + 1])
      ELSE Raise("IndexError")

\* The arguments metric may be: a str, an int, or something else (a float).
StrArg(s) == [type |-> "str", s |-> s, i |-> 0]
IntArg(i) == [type |-> "int", s |-> "", i |-> i]
FloatArg == [type |-> "float", s |-> "", i |-> 0]

\* set_metric on the fields self == [metric, inlier_only, modelReset]; the
\* result carries the exception that ended the call, if one did.
set_metric(self, arg, io) ==
  LET done(m) == [metric |-> m, inlier_only |-> io,
                  modelReset |-> self.modelReset + 1, raised |-> "none"]
      fail(exc) == [metric |-> self.metric, inlier_only |-> self.inlier_only,
                    modelReset |-> self.modelReset, raised |-> exc]
  IN  IF arg.type = "str"
        THEN IF ~InDict(MetricKeys, arg.s) THEN fail("AssertionError")
             ELSE done(arg.s)
      ELSE IF arg.type # "int" THEN fail("AssertionError")
      ELSE LET item == ListIndex(MetricKeys, arg.i)
           IN  IF item.raised # "none" THEN fail(item.raised) ELSE done(item.value)

MetricArgs ==
  {StrArg(s) : s \in {MetricKeys[i] : i \in DOMAIN MetricKeys} \cup {"total", "Median", ""}}
    \cup {IntArg(i) : i \in (-Len(MetricKeys) - 2)..(Len(MetricKeys) + 1)}
    \cup {FloatArg}



SetMetric ==
  /\ \E arg \in MetricArgs, io \in BOOLEAN :
     LET r == set_metric([metric |-> metric, inlier_only |-> inlier_only,
                          modelReset |-> modelReset], arg, io)
     IN  /\ r.modelReset <= MaxResets
         /\ metric' = r.metric
         /\ inlier_only' = r.inlier_only
         /\ modelReset' = r.modelReset
         /\ raised' = r.raised
  /\ UNCHANGED notMetric

\* --------------------------------------------- viewer_3d/moving_cameras.py
\* A pose is a translation along one axis with its validity flag: composing
\* adds, inverting negates.
Pose(t, ok) == [poses |-> t, valid_poses |-> ok]

\* tables.expand_poses: the pose of every (camera, frame) pair, the camera's
\* pose composed with the frame's rig pose, valid where both are.
expand_poses(estimates) ==
  [c \in DOMAIN estimates.camera |->
    [f \in DOMAIN estimates.rig |->
      Pose(estimates.camera[c].poses + estimates.rig[f].poses,
           estimates.camera[c].valid_poses /\ estimates.rig[f].valid_poses)]]

\* tables.inverse: the rigid inverse of every pose; validity is kept.
inverse(table) ==
  [c \in DOMAIN table |->
    [f \in DOMAIN table[c] |-> Pose(-table[c][f].poses, table[c][f].valid_poses)]]

\* marker.View(viewer, camera, pose, scale): a marker as constructed; `shown`
\* is the visibility View.__init__ leaves its actors with.
View(camera, pose, scale, shown) ==
  [type |-> "View", camera |-> camera, pose |-> pose, scale |-> scale,
   color |-> <<0, 0, 0>>, visible |-> shown]

\* Mutant: a marker for every pose, valid or not.
add_view_always(view_pose, camera, scale, shown) ==
  View(camera, view_pose.poses, scale, shown)

add_view(view_pose, camera, scale, shown) ==
  IF view_pose.valid_poses THEN View(camera, view_pose.poses, scale, shown) ELSE None

Min2(a, b) == IF a < b THEN a ELSE b

\* view_markers: view_poses._sequence(1) walks the frames, the inner zip pairs
\* the cameras' poses of one frame with the cameras (to the shorter of the two).
view_markers(estimates, cameras, scale, shown) ==
  LET view_poses == inverse(expand_poses(estimates))
      nframes    == IF Len(view_poses) = 0 THEN 0 ELSE Len(view_poses[1])
  IN  [f \in 1..nframes |->
        [c \in 1..Min2(Len(view_poses), Len(cameras)) |->
          add_view(view_poses[c][f], cameras[c], scale, shown)]]

\* MovingCameras.valid_views
RECURSIVE NotNone(_)
NotNone(list) ==
  IF list = <<>> THEN <<>>
  ELSE (IF Head(list).type = "NoneType" THEN <<>> ELSE <<Head(list)>>) \o NotNone(Tail(list))

RECURSIVE Flatten(_)
Flatten(lists) == IF lists = <<>> THEN <<>> ELSE Head(lists) \o Flatten(Tail(lists))

valid_views(vs) == NotNone(Flatten(vs))

\* Mutant: the markers are shown or hidden, the board is left as it was.
show_views_only(self, is_shown) ==
  [views |-> [f \in DOMAIN self.views |-> [c \in DOMAIN self.views[f] |->
                IF self.views[f][c].type = "NoneType" THEN self.views[f][c]
                ELSE [self.views[f][c] EXCEPT !.visible = is_shown]]],
   board |-> self.board]

\* MovingCameras.show on the fields self == [views, board]
show(self, is_shown) ==
  [views |-> [f \in DOMAIN self.views |-> [c \in DOMAIN self.views[f] |->
                IF self.views[f][c].type = "NoneType" THEN self.views[f][c]
                ELSE [self.views[f][c] EXCEPT !.visible = is_shown]]],
   board |-> [self.board EXCEPT !.visible = is_shown]]

\* Colours in halves: (0.5, 0.5, 0.5), (1, 1, 0), (0.5, 1, 0).
Grey == <<1, 1, 1>>
Yellow == <<2, 2, 0>>
Green == <<1, 2, 0>>

\* MovingCameras.update; i and j count from 0 as enumerate does.
update(self, state) ==
  [self EXCEPT !.views =
    [f \in DOMAIN self.views |-> [c \in DOMAIN self.views[f] |->
      LET i == f - 1
          j == c - 1
          color == IF i = state.frame
                     THEN (IF j = state.camera THEN Yellow ELSE Green)
                     ELSE Grey
          view == self.views[f][c]
      IN  IF view.type = "NoneType" THEN view
          ELSE [view EXCEPT !.color = color, !.scale = state.scale]]]]

enable(self, state) == update(show(self, TRUE), state)

disable(self) == show(self, FALSE)

ViewerStates ==
  [frame : 0..(NFrames - 1), camera : 0..(NCameras - 1), scale : {1, 2}]

PoseEstimates ==
  {[camera |-> [c \in 1..NCameras |-> Pose(c, cv[c])],
    rig |-> [f \in 1..NFrames |-> Pose(10 * f, rv[f])]] :
      cv \in [1..NCameras -> BOOLEAN], rv \in [1..NFrames -> BOOLEAN]}

Cameras == [c \in 1..NCameras |-> c]



Update ==
  /\ viewer_updates < MaxUpdates
  /\ \E state \in ViewerStates :
       LET r == update([views |-> views, board |-> board], state)
       IN  views' = r.views /\ board' = r.board
  /\ viewer_updates' = viewer_updates + 1
  /\ last_call' = "update"
  /\ UNCHANGED <<pose_estimates, last_show>>
  /\ UNCHANGED notView

Enable ==
  /\ viewer_updates < MaxUpdates
  /\ \E state \in ViewerStates :
       LET r == enable([views |-> views, board |-> board], state)
       IN  views' = r.views /\ board' = r.board
  /\ viewer_updates' = viewer_updates + 1
  /\ last_call' = "enable" /\ last_show' = "enable"
  /\ UNCHANGED pose_estimates
  /\ UNCHANGED notView

Disable ==
  /\ LET r == disable([views |-> views, board |-> board])
     IN  views' = r.views /\ board' = r.board
  /\ last_call' = "disable" /\ last_show' = "disable"
  /\ UNCHANGED <<pose_estimates, viewer_updates>>
  /\ UNCHANGED notView

\* --------------------- view_table.py: reprojection_tables, detection_tables
\* tables.reprojection_error: the distance between the two tables' points and
\* the points valid in both. Image points are coordinates on one axis.
Abs(x) == IF x < 0 THEN -x ELSE x
reprojection_error(projected, point_table) ==
  [error |-> [projected.points EXCEPT !.data =
                [idx \in DOMAIN projected.points.data |->
                  Abs(projected.points.data[idx] - point_table.points.data[idx])]],
   valid |-> np_and(projected.valid, point_table.valid_points)]

reprojection_tables(cal, inl_only) ==
  LET point_table == IF inl_only
                       THEN [cal.point_table EXCEPT !.valid_points = cal.inliers]
                       ELSE cal.point_table
      ev   == reprojection_error(cal.projected, point_table)
      f(axis) == reprojection_statistics(ev.error, ev.valid, cal.inliers, axis)
  IN  [overall |-> f(AxisNone), views |-> f(AxisInt(2)),
       cameras |-> f(AxisTuple(<<1, 2>>)), frames |-> f(AxisTuple(<<0, 2>>))]

detection_tables(point_table) ==
  LET f(axis) == np_count(point_table.valid_points, axis)
  IN  [overall |-> f(AxisNone), views |-> f(AxisTuple(<<2, 3>>)),
       cameras |-> f(AxisTuple(<<1, 2, 3>>)), frames |-> f(AxisTuple(<<0, 2, 3>>)),
       boards |-> f(AxisTuple(<<0, 1, 3>>))]

\* A PointTable has the axes (cameras, frames, boards, points).
PointTableShape == <<NCameras, NFrames, NBoards, NBoardPoints>>

\* The calibrations called with: at most MaxDetected points are detected, each
\* on its projection or MaxError away from it; the inliers are among them.
Calibrations(PointShape) ==
  {[point_table |->
      [points |-> [shape |-> PointShape,
                   data |-> [idx \in Indices(PointShape) |->
                              IF idx \in D THEN e[idx] ELSE 0]],
       valid_points |-> [shape |-> PointShape,
                         data |-> [idx \in Indices(PointShape) |-> idx \in D]]],
    projected |->
      [points |-> [shape |-> PointShape, data |-> [idx \in Indices(PointShape) |-> 0]],
       valid |-> [shape |-> PointShape, data |-> [idx \in Indices(PointShape) |-> TRUE]]],
    inliers |-> [shape |-> PointShape,
                 data |-> [idx \in Indices(PointShape) |-> idx \in I]]] :
     <<D, e, I>> \in
       UNION {{<<D0, e0, I0>> : e0 \in [D0 -> {0, MaxError}], I0 \in SUBSET D0} :
                D0 \in {X \in SUBSET Indices(PointShape) : Cardinality(X) <= MaxDetected}}}



CallReprojectionTables ==
  /\ rtables = NotCalled /\ dtables = NotCalled
  /\ \E inl_only \in BOOLEAN :
       rtables' = [inlier_only |-> inl_only,
                   tables |-> reprojection_tables(calib, inl_only)]
  /\ UNCHANGED <<calib, dtables>>
  /\ UNCHANGED notTable

CallDetectionTables ==
  /\ rtables = NotCalled /\ dtables = NotCalled
  /\ dtables' = detection_tables(calib.point_table)
  /\ UNCHANGED <<calib, rtables>>
  /\ UNCHANGED notTable

\* ------------------------------------------------------- specifications
\* One specification per class or function group; the state of the others is idle.

\* A Static model over NFrames poses, each valid or not, and calls on it.
InitStatic ==
  /\ model \in {Static(poses) : poses \in PoseValidity(NFrames)}
  /\ ret = NoCall
  /\ error = None /\ valid = None /\ inlier = None
  /\ stats = NotCalled /\ quant = NotCalled
  /\ calib = None /\ rtables = NotCalled /\ dtables = NotCalled
  /\ metric = "" /\ inlier_only = FALSE /\ modelReset = 0 /\ raised = "none"
  /\ pose_estimates = None /\ views = <<>> /\ board = None
  /\ viewer_updates = 0 /\ last_call = "none" /\ last_show = "none"

NextStatic ==
  \/ CallParams
  \/ CallWithParams
  \/ CallRoundTrip
  \/ CallSparsity
  \/ CallProject
  \/ CallReproject

SpecStatic == InitStatic /\ [][NextStatic]_vars

\* The arguments of a call of reprojection_statistics or masked_quantile: an
\* error array with a validity mask and an inlier mask.
InitStats ==
  /\ model = None /\ ret = NoCall
  /\ error \in Arrays(<<NPoints>>, 0..MaxError)
  /\ valid \in Arrays(<<NPoints>>, BOOLEAN)
  /\ inlier \in Arrays(<<NPoints>>, BOOLEAN)
  /\ stats = NotCalled /\ quant = NotCalled
  /\ calib = None /\ rtables = NotCalled /\ dtables = NotCalled
  /\ metric = "" /\ inlier_only = FALSE /\ modelReset = 0 /\ raised = "none"
  /\ pose_estimates = None /\ views = <<>> /\ board = None
  /\ viewer_updates = 0 /\ last_call = "none" /\ last_show = "none"

NextStats ==
  \/ CallReprojectionStatistics
  \/ CallMaskedQuantile

SpecStats == InitStats /\ [][NextStats]_vars

\* A calibration and the statistics tables computed from it.
InitTables ==
  /\ model = None /\ ret = NoCall
  /\ error = None /\ valid = None /\ inlier = None
  /\ stats = NotCalled /\ quant = NotCalled
  /\ calib \in Calibrations(PointTableShape) /\ rtables = NotCalled /\ dtables = NotCalled
  /\ metric = "" /\ inlier_only = FALSE /\ modelReset = 0 /\ raised = "none"
  /\ pose_estimates = None /\ views = <<>> /\ board = None
  /\ viewer_updates = 0 /\ last_call = "none" /\ last_show = "none"

NextTables ==
  \/ CallReprojectionTables
  \/ CallDetectionTables

SpecTables == InitTables /\ [][NextTables]_vars

\* ViewModelCalibrated.__init__, then set_metric calls.
InitMetric ==
  /\ model = None /\ ret = NoCall
  /\ error = None /\ valid = None /\ inlier = None
  /\ stats = NotCalled /\ quant = NotCalled
  /\ calib = None /\ rtables = NotCalled /\ dtables = NotCalled
  /\ metric = "detected" /\ inlier_only = FALSE /\ modelReset = 0 /\ raised = "none"
  /\ pose_estimates = None /\ views = <<>> /\ board = None
  /\ viewer_updates = 0 /\ last_call = "none" /\ last_show = "none"

NextMetric == SetMetric

SpecMetric == InitMetric /\ [][NextMetric]_vars

\* MovingCameras.__init__: the markers and the board keep the visibility their
\* constructors (marker.View, marker.board_object) give them.
InitViews ==
  /\ model = None /\ ret = NoCall
  /\ error = None /\ valid = None /\ inlier = None
  /\ stats = NotCalled /\ quant = NotCalled
  /\ calib = None /\ rtables = NotCalled /\ dtables = NotCalled
  /\ metric = "" /\ inlier_only = FALSE /\ modelReset = 0 /\ raised = "none"
  /\ pose_estimates \in PoseEstimates
  /\ \E shown \in BOOLEAN : views = view_markers(pose_estimates, Cameras, 1, shown)
  /\ \E shown \in BOOLEAN : board = [type |-> "board", visible |-> shown]
  /\ viewer_updates = 0 /\ last_call = "none" /\ last_show = "none"

NextViews ==
  \/ Update
  \/ Enable
  \/ Disable

SpecViews == InitViews /\ [][NextViews]_vars

\* ----------------------------------------------------------------- claims
\* Helpers of the formulas below, stated without the model's numpy operators.
ValidPoints == {idx \in DOMAIN valid.data : valid.data[idx]}
Outliers == {idx \in DOMAIN valid.data : valid.data[idx] /\ ~inlier.data[idx]}
StatsCalled == stats # NotCalled
QuantCalled == quant # NotCalled
Scalar(a) == a.data[<<>>]

RECURSIVE SquaredError(_)
SquaredError(S) ==
  IF S = {} THEN 0
  ELSE LET x == CHOOSE x \in S : TRUE
       IN  error.data[x] * error.data[x] + SquaredError(S \ {x})

\* C1: for every parameter vector x, with_params(x).params() returns x.
C1_RoundTrip ==
  ret.op = "round_trip" =>
    ret.result.raised = "none" /\ ret.result.value = ret.arg

\* C2: project(cameras, camera_poses, world_points) completes and returns the
\* table of predicted points, although no detected table is supplied.
C2_ProjectReturns ==
  ret.op = "project" =>
    ret.result.raised = "none" /\ ret.result.value.type = "Table"

\* C3: mse is the sum of squared error over the valid points only, divided by
\* max(count of valid points, 1); an invalid point's error never contributes.
C3_MseOverValid ==
  StatsCalled =>
    Scalar(stats.mse) = Rat(SquaredError(ValidPoints),
                            IF ValidPoints = {} THEN 1 ELSE Cardinality(ValidPoints))

C5_Counts ==
  StatsCalled =>
    /\ Scalar(stats.detected) = Cardinality(ValidPoints)
    /\ Scalar(stats.outliers) = Cardinality(Outliers)

C5_Witness ==
  /\ StatsCalled
  /\ \E idx \in DOMAIN valid.data : ~valid.data[idx] /\ ~inlier.data[idx]
  /\ Scalar(stats.detected) = NPoints - 1
  /\ Scalar(stats.outliers) = 1

\* C6: reprojection_tables over a (cameras, frames, boards, points) table gives
\* overall one cell, views one cell per (camera, frame), cameras one per camera,
\* frames one per frame, each counting every board and point of its index.
C6_TableShapes ==
  rtables # NotCalled =>
    LET t == rtables.tables
        pt == IF rtables.inlier_only
                THEN np_and(calib.projected.valid, calib.inliers)
                ELSE np_and(calib.projected.valid, calib.point_table.valid_points)
    IN  /\ t.overall.detected.shape = <<>>
        /\ t.views.detected.shape = <<NCameras, NFrames>>
        /\ t.cameras.detected.shape = <<NCameras>>
        /\ t.frames.detected.shape = <<NFrames>>
        /\ \A c \in 0..(NCameras - 1), f \in 0..(NFrames - 1) :
             t.views.detected.data[<<c, f>>] =
               Cardinality({idx \in DOMAIN pt.data :
                              pt.data[idx] /\ idx[1] = c /\ idx[2] = f})

\* C7: the quantiles are those of the unmasked entries alone, and with every
\* entry masked each of them is NaN.
Unmasked == {idx \in DOMAIN error.data :
               IF quant.mask = "valid" THEN valid.data[idx] ELSE inlier.data[idx]}
MaskUsed == IF quant.mask = "valid" THEN valid ELSE inlier
\* The error array with every masked-out entry replaced by v.
Overwritten(v) ==
  [error EXCEPT !.data = [idx \in DOMAIN error.data |->
     IF idx \in Unmasked THEN error.data[idx] ELSE v]]
\* r is a quantile k/4 of the unmasked values: at most ceil(k(m-1)/4) of them lie
\* below it and at most ceil((4-k)(m-1)/4) above it.
Brackets(r, k) ==
  LET m == Cardinality(Unmasked)
      below == Cardinality({idx \in Unmasked : r.den * error.data[idx] < r.num})
      above == Cardinality({idx \in Unmasked : r.den * error.data[idx] > r.num})
  IN  /\ r.den > 0
      /\ 4 * below < k * (m - 1) + 4
      /\ 4 * above < (4 - k) * (m - 1) + 4

C7_MaskedQuantile ==
  QuantCalled =>
    /\ Unmasked = {} => \A k \in 1..5 : IsNaN(Scalar(quant.result[k]))
    /\ Unmasked # {} =>
         /\ \A k \in 1..5 : Brackets(Scalar(quant.result[k]), k - 1)
         /\ \E idx \in Unmasked : Scalar(quant.result[1]) = Rat(4 * error.data[idx], 4)
         /\ \E idx \in Unmasked : Scalar(quant.result[5]) = Rat(4 * error.data[idx], 4)
    /\ \A v \in {0, MaxError} :
         masked_quantile(Overwritten(v), MaskUsed, StatQuantiles, AxisNone) = quant.result

C7_Witness ==
  /\ QuantCalled
  /\ Cardinality(Unmasked) = NPoints - 1
  /\ \E idx \in DOMAIN error.data : idx \notin Unmasked /\ error.data[idx] = MaxError
  /\ Scalar(quant.result[5]).num < 4 * MaxError

C7_WitnessAllMasked ==
  QuantCalled /\ Unmasked = {} /\ IsNaN(Scalar(quant.result[3]))

\* C8: a marker exists at views[frame][camera] exactly where the expanded,
\* inverted pose of the pair is valid, and valid_views holds one entry per
\* valid pair.
ViewPoses == inverse(expand_poses(pose_estimates))
ValidPairs ==
  {<<f, c>> \in (1..NFrames) \X (1..NCameras) : ViewPoses[c][f].valid_poses}

C8_OneMarkerPerValidPair ==
  views # <<>> =>
    /\ DOMAIN views = 1..NFrames
    /\ \A f \in 1..NFrames :
         /\ DOMAIN views[f] = 1..NCameras
         /\ \A c \in 1..NCameras :
              (views[f][c].type = "View") <=> (<<f, c>> \in ValidPairs)
    /\ Len(valid_views(views)) = Cardinality(ValidPairs)

C8_Witness ==
  /\ views # <<>>
  /\ ValidPairs # {}
  /\ ValidPairs # (1..NFrames) \X (1..NCameras)
  /\ Len(valid_views(views)) = Cardinality(ValidPairs)

\* C9: metric is always a key of metrics, and a call that raised left metric,
\* inlier_only and the count of modelReset emissions as they were.
C9_MetricIsKey ==
  /\ [](metric \in {"detected", "median", "upper_q", "max", "rms", "mse"})
  /\ [][raised' # "none" => UNCHANGED <<metric, inlier_only, modelReset>>]_vars

C9_Witness ==
  /\ raised = "IndexError"
  /\ modelReset > 1
  /\ metric = "mse" /\ inlier_only

\* C10: once enable or disable was called, the board and every valid marker
\* are shown if the last of the two was enable and hidden if it was disable;
\* update leaves every visibility as it was.
Visibility ==
  <<board.visible,
    [f \in DOMAIN views |-> [c \in DOMAIN views[f] |->
       views[f][c].type = "View" /\ views[f][c].visible]]>>

AllVisibilityIs(b) ==
  /\ board.visible = b
  /\ \A i \in DOMAIN valid_views(views) : valid_views(views)[i].visible = b

C10_VisibilityFollowsLastShow ==
  /\ [](last_show = "enable" => AllVisibilityIs(TRUE))
  /\ [](last_show = "disable" => AllVisibilityIs(FALSE))
  /\ [][last_call' = "update" => Visibility' = Visibility]_vars

C10_Witness ==
  /\ last_show = "disable" /\ last_call = "update"
  /\ valid_views(views) # <<>>
  /\ \E i \in DOMAIN valid_views(views) : valid_views(views)[i].color = Yellow
  /\ AllVisibilityIs(FALSE)

====
